---- MODULE Spec2Model ----
(***************************************************************************)
(* Model of the cashflow calculator: the calculation service               *)
(* (calculator/services.py), the Execution record (calculator/models.py)   *)
(* and the upload / process request handlers (calculator/views.py).        *)
(*                                                                         *)
(* Text is modelled as a sequence of one-character strings, so that        *)
(* strip(), lower(), strptime(), int() and float() are computed on the     *)
(* characters.  Numbers that Python holds as floats are modelled as exact  *)
(* decimals: salaries and rates in thousandths, probabilities in           *)
(* millionths, products as arbitrary-precision naturals in base 1000.      *)
(***************************************************************************)
EXTENDS Integers, Sequences, FiniteSets, TLC

VARIABLES
    \* parse_date called on its own
    date_str, parsed,
    \* calculate_age called on its own
    birth_date, valuation, current_age,
    \* get_probability called on its own
    age, probability,
    \* whether the function called on its own has returned
    returned,
    \* process_cashflow: the rows read from the file, the index of the next
    \* row, the assumptions, the employees, the index of the next employee,
    \* the Projection Rows, the returned tuple, and the position in the code
    rows, i, valuation_date, discount_rate, salary_increase_rate, retirement_age,
    assumptions_found, employees, input_row_count, emp_i, output_rows, result, pc,
    \* the Execution table, the process requests being handled, the message
    \* shown last, the number of process requests that got past the status
    \* test, and the number of calls of process_cashflow made for each
    \* execution
    executions, requests, message, started, runs

fnVars == <<date_str, parsed, birth_date, valuation, current_age, age, probability, returned>>

coreVars == <<rows, i, valuation_date, discount_rate, salary_increase_rate, retirement_age,
              assumptions_found, employees, input_row_count, emp_i, output_rows, result, pc>>

webVars == <<executions, requests, message, started, runs>>

vars == <<fnVars, coreVars, webVars>>

\* A variable that holds no value yet (Python's unbound name / None).
Unset == [unset |-> TRUE]

(***************************************************************************)
(* Text                                                                    *)
(***************************************************************************)
DigitChars == <<"0", "1", "2", "3", "4", "5", "6", "7", "8", "9">>

IsDigit(c) == \E k \in 1..10 : DigitChars[k] = c

DigitVal(c) == (CHOOSE k \in 1..10 : DigitChars[k] = c) - 1

IsSpace(c) == c \in {" ", "\t"}

AllDigits(s) == Len(s) > 0 /\ \A k \in 1..Len(s) : IsDigit(s[k])

RECURSIVE NumVal(_)
\* int() of a string of decimal digits
NumVal(s) == IF s = <<>> THEN 0 ELSE 10 * NumVal(SubSeq(s, 1, Len(s) - 1)) + DigitVal(s[Len(s)])

RECURSIVE LStrip(_)
LStrip(s) == IF s # <<>> /\ IsSpace(Head(s)) THEN LStrip(Tail(s)) ELSE s

RECURSIVE RStrip(_)
RStrip(s) == IF s # <<>> /\ IsSpace(s[Len(s)]) THEN RStrip(SubSeq(s, 1, Len(s) - 1)) ELSE s

\* str.strip()
Strip(s) == RStrip(LStrip(s))

UpperLetters ==
    <<"A", "B", "C", "D", "E", "F", "G", "H", "I", "J", "K", "L", "M", "N", "O", "P", "Q", "R", "S", "T", "U", "V", "W", "X", "Y", "Z">>

LowerLetters ==
    <<"a", "b", "c", "d", "e", "f", "g", "h", "i", "j", "k", "l", "m", "n", "o", "p", "q", "r", "s", "t", "u", "v", "w", "x", "y", "z">>

LowerChar(c) ==
    IF \E k \in 1..26 : UpperLetters[k] = c
    THEN LowerLetters[CHOOSE k \in 1..26 : UpperLetters[k] = c]
    ELSE c

\* str.lower()
Lower(s) == [k \in 1..Len(s) |-> LowerChar(s[k])]

(***************************************************************************)
(* datetime                                                                *)
(***************************************************************************)
DateTime(y, m, d, hh, mm, ss) ==
    [year |-> y, month |-> m, day |-> d, hour |-> hh, minute |-> mm, second |-> ss]

Date(y, m, d) == DateTime(y, m, d, 0, 0, 0)

IsLeap(y) == y % 4 = 0 /\ (y % 100 # 0 \/ y % 400 = 0)

DaysInMonth(y, m) ==
    IF m = 2 THEN (IF IsLeap(y) THEN 29 ELSE 28)
    ELSE IF m \in {4, 6, 9, 11} THEN 30 ELSE 31

RECURSIVE DaysBeforeMonth(_, _)
DaysBeforeMonth(y, m) == IF m = 1 THEN 0 ELSE DaysBeforeMonth(y, m - 1) + DaysInMonth(y, m - 1)

\* date.toordinal(): 1 for 0001-01-01
ToOrdinal(dt) ==
    LET y == dt.year - 1
    IN  y * 365 + (y \div 4) - (y \div 100) + (y \div 400) + DaysBeforeMonth(dt.year, dt.month) + dt.day

SecondOfDay(dt) == dt.hour * 3600 + dt.minute * 60 + dt.second

\* (a - b).days: a timedelta is normalised with 0 <= seconds < 86400
TimedeltaDays(a, b) ==
    ToOrdinal(a) - ToOrdinal(b) - (IF SecondOfDay(a) < SecondOfDay(b) THEN 1 ELSE 0)

(***************************************************************************)
(* datetime.strptime for the directives the formats use.  A format is a    *)
(* sequence of tokens: a directive, a blank (matching \s+), or a literal.  *)
(***************************************************************************)
OneToNine(c) == IsDigit(c) /\ c # "0"

\* the regular expression of one directive (_strptime.TimeRE)
DirectiveMatch(tok, t) ==
    CASE tok = "%d" ->
            \/ Len(t) = 2 /\ t[1] = "3" /\ t[2] \in {"0", "1"}
            \/ Len(t) = 2 /\ t[1] \in {"1", "2"} /\ IsDigit(t[2])
            \/ Len(t) = 2 /\ t[1] = "0" /\ OneToNine(t[2])
            \/ Len(t) = 1 /\ OneToNine(t[1])
            \/ Len(t) = 2 /\ t[1] = " " /\ OneToNine(t[2])
      [] tok = "%m" ->
            \/ Len(t) = 2 /\ t[1] = "1" /\ t[2] \in {"0", "1", "2"}
            \/ Len(t) = 2 /\ t[1] = "0" /\ OneToNine(t[2])
            \/ Len(t) = 1 /\ OneToNine(t[1])
      [] tok = "%Y" -> Len(t) = 4 /\ AllDigits(t)
      [] tok = "%H" ->
            \/ Len(t) = 2 /\ t[1] = "2" /\ t[2] \in {"0", "1", "2", "3"}
            \/ Len(t) = 2 /\ t[1] \in {"0", "1"} /\ IsDigit(t[2])
            \/ Len(t) = 1 /\ IsDigit(t[1])
      [] tok = "%M" ->
            \/ Len(t) = 2 /\ t[1] \in {"0", "1", "2", "3", "4", "5"} /\ IsDigit(t[2])
            \/ Len(t) = 1 /\ IsDigit(t[1])
      [] tok = "%S" ->
            \/ Len(t) = 2 /\ t[1] = "6" /\ t[2] \in {"0", "1"}
            \/ Len(t) = 2 /\ t[1] \in {"0", "1", "2", "3", "4", "5"} /\ IsDigit(t[2])
            \/ Len(t) = 1 /\ IsDigit(t[1])
      [] tok = " " -> Len(t) > 0 /\ \A k \in 1..Len(t) : IsSpace(t[k])
      [] OTHER -> t = <<tok>>

\* the value a matched directive gives to the result
Bind(acc, tok, t) ==
    CASE tok = "%d" -> [acc EXCEPT !.day = NumVal(LStrip(t))]
      [] tok = "%m" -> [acc EXCEPT !.month = NumVal(t)]
      [] tok = "%Y" -> [acc EXCEPT !.year = NumVal(t)]
      [] tok = "%H" -> [acc EXCEPT !.hour = NumVal(t)]
      [] tok = "%M" -> [acc EXCEPT !.minute = NumVal(t)]
      [] tok = "%S" -> [acc EXCEPT !.second = NumVal(t)]
      [] OTHER -> acc

RECURSIVE RegexParses(_, _, _)
\* every way the whole of s matches the tokens (at most one for these formats)
RegexParses(s, toks, acc) ==
    IF toks = <<>> THEN (IF s = <<>> THEN {acc} ELSE {})
    ELSE UNION { IF DirectiveMatch(Head(toks), SubSeq(s, 1, n))
                 THEN RegexParses(SubSeq(s, n + 1, Len(s)), Tail(toks),
                                  Bind(acc, Head(toks), SubSeq(s, 1, n)))
                 ELSE {} : n \in 0..Len(s) }

ValueError == [ok |-> FALSE]

\* datetime.strptime(s, fmt): ValueError when the text does not match the
\* format or the matched fields are not a date
strptime(s, fmt) ==
    LET ps == RegexParses(s, fmt, DateTime(1900, 1, 1, 0, 0, 0))
    IN  IF ps = {} THEN ValueError
        ELSE LET p == CHOOSE q \in ps : TRUE
             IN  IF p.year >= 1 /\ p.day <= DaysInMonth(p.year, p.month) /\ p.second <= 59
                 THEN [ok |-> TRUE, value |-> p]
                 ELSE ValueError

FmtIsoDate == <<"%Y", "-", "%m", "-", "%d">>

FmtIsoDateTime == <<"%Y", "-", "%m", "-", "%d", " ", "%H", ":", "%M", ":", "%S">>

FmtDayMonthYear == <<"%d", "/", "%m", "/", "%Y">>

FmtMonthDayYear == <<"%m", "/", "%d", "/", "%Y">>

FmtDayMonthYearDash == <<"%d", "-", "%m", "-", "%Y">>

\* the list with month/day/year tried before day/month/year
formatsMonthFirst ==
    <<FmtIsoDate, FmtIsoDateTime, FmtMonthDayYear, FmtDayMonthYear, FmtDayMonthYearDash>>

formats ==
    <<FmtIsoDate, FmtIsoDateTime, FmtDayMonthYear, FmtMonthDayYear, FmtDayMonthYearDash>>

RECURSIVE TryFormats(_, _)
\* the for loop of parse_date from format k on
TryFormats(s, k) ==
    IF k > Len(formats) THEN ValueError
    ELSE LET r == strptime(Strip(s), formats[k])
         IN  IF r.ok THEN r ELSE TryFormats(s, k + 1)

parse_date(s) == TryFormats(s, 1)

(***************************************************************************)
(* calculate_age and get_probability                                       *)
(***************************************************************************)
\* int(x) of the float a / b, b > 0: truncation toward zero
TruncDiv(a, b) == IF a >= 0 THEN a \div b ELSE -((-a) \div b)

\* the age without the day added to the difference
calculate_ageNoPlusOne(birth, val) ==
    LET days == TimedeltaDays(val, birth)
    IN  IF 4 * days >= 0 THEN (4 * days) \div 1461 ELSE -((-(4 * days)) \div 1461)

\* days / 365.25 = 4 * days / 1461; the float quotient is an integer only
\* when the exact one is, so int() of it is the truncated exact quotient
calculate_age(birth, val) ==
    LET days == TimedeltaDays(val, birth) + 1
    IN  TruncDiv(4 * days, 1461)

\* the probability pairs, in millionths
Band(lo, hi, qx, px) == [a \in lo..hi |-> [qx |-> qx, px |-> px]]

DEFAULT_PROBABILITY_TABLE ==
    Band(20, 24, 1152, 998848) @@ Band(25, 25, 1413, 998587) @@
    Band(26, 28, 1491, 998509) @@ Band(29, 31, 1492, 998509) @@
    Band(32, 32, 1491, 998509) @@ Band(33, 34, 1492, 998509) @@
    Band(35, 39, 2290, 997710) @@ Band(40, 44, 3211, 996789) @@
    Band(45, 45, 4627, 995374) @@ Band(46, 49, 4748, 995252) @@
    Band(50, 54, 7059, 992941) @@ Band(55, 59, 10286, 989714) @@
    Band(60, 73, 0, 1000000)

MinKey(table) == CHOOSE k \in DOMAIN table : \A j \in DOMAIN table : k <= j

MaxKey(table) == CHOOSE k \in DOMAIN table : \A j \in DOMAIN table : k >= j

KeyError == [error |-> "KeyError"]

\* table[k]
DictGet(table, k) == IF k \in DOMAIN table THEN table[k] ELSE KeyError

\* the lookup without the boundary branches
get_probabilityNoClamp(a, table) == DictGet(table, a)

get_probability(a, table) ==
    IF a \in DOMAIN table THEN DictGet(table, a)
    ELSE IF a < MinKey(table) THEN DictGet(table, MinKey(table))
    ELSE DictGet(table, MaxKey(table))

(***************************************************************************)
(* Numbers.  A natural number of any size is the sequence of its base-1000 *)
(* digits, least significant first, without leading zeros; a decimal is a  *)
(* sign and such a magnitude, counted in a fixed unit.                     *)
(***************************************************************************)
Abs(n) == IF n < 0 THEN -n ELSE n

RECURSIVE BigNorm(_)
BigNorm(b) == IF b # <<>> /\ b[Len(b)] = 0 THEN BigNorm(SubSeq(b, 1, Len(b) - 1)) ELSE b

RECURSIVE BigFromNat(_)
BigFromNat(n) == IF n = 0 THEN <<>> ELSE <<n % 1000>> \o BigFromNat(n \div 1000)

RECURSIVE MulCarry(_, _, _)
MulCarry(b, m, c) ==
    IF b = <<>> THEN BigFromNat(c)
    ELSE <<(Head(b) * m + c) % 1000>> \o MulCarry(Tail(b), m, (Head(b) * m + c) \div 1000)

\* b * m for 0 <= m <= 2000000
BigMulSmall(b, m) == BigNorm(MulCarry(b, m, 0))

RECURSIVE BigInc(_)
BigInc(b) ==
    IF b = <<>> THEN <<1>>
    ELSE IF Head(b) < 999 THEN <<Head(b) + 1>> \o Tail(b)
    ELSE <<0>> \o BigInc(Tail(b))

BigLess(a, b) ==
    \/ Len(a) < Len(b)
    \/ /\ Len(a) = Len(b)
       /\ \E k \in 1..Len(a) : a[k] < b[k] /\ \A j \in (k + 1)..Len(a) : a[j] = b[j]

\* b / 1000^s rounded to the nearest natural, a tie to the even one
RoundShift(b, s) ==
    LET q    == SubSeq(b, s + 1, Len(b))
        top  == IF s >= 1 /\ s <= Len(b) THEN b[s] ELSE 0
        rest == \E k \in 1..(s - 1) : k <= Len(b) /\ b[k] # 0
        odd  == q # <<>> /\ q[1] % 2 = 1
    IN  IF top > 500 \/ (top = 500 /\ (rest \/ odd)) THEN BigInc(q) ELSE q

Signed(neg, mag) == [neg |-> neg /\ mag # <<>>, mag |-> mag]

SignedLess(a, b) ==
    IF a.neg /\ ~b.neg THEN TRUE
    ELSE IF ~a.neg /\ b.neg THEN FALSE
    ELSE IF a.neg THEN BigLess(b.mag, a.mag)
    ELSE BigLess(a.mag, b.mag)

\* x * (1 + rate) for a float x = +-mag / 1000^scale and a rate in thousandths
TimesOnePlus(x, rate) ==
    [neg   |-> (x.neg # (1000 + rate < 0)) /\ BigMulSmall(x.mag, Abs(1000 + rate)) # <<>>,
     mag   |-> BigMulSmall(x.mag, Abs(1000 + rate)),
     scale |-> x.scale + 1]

\* round(x, 2), in hundredths
Round2(x) == Signed(x.neg, RoundShift(BigMulSmall(x.mag, 100), x.scale))

\* round(x * px * qx, 6), in millionths, for px and qx in millionths
Round6Product(x, px, qx) ==
    Signed(x.neg, RoundShift(BigMulSmall(BigMulSmall(x.mag, px), qx), x.scale + 2))

(***************************************************************************)
(* int() and float() of a cell.  float() is modelled for plain decimals    *)
(* (no exponent, inf or nan) with at most `places' digits after the point; *)
(* its value is counted in units of 10^-places.                            *)
(***************************************************************************)
Unsign(s) == IF s # <<>> /\ Head(s) \in {"+", "-"} THEN Tail(s) ELSE s

IsNegative(s) == s # <<>> /\ Head(s) = "-"

\* int(s)
ParseInt(s) ==
    LET t == Strip(s)
    IN  IF AllDigits(Unsign(t))
        THEN [ok |-> TRUE, value |-> IF IsNegative(t) THEN -NumVal(Unsign(t)) ELSE NumVal(Unsign(t))]
        ELSE ValueError

PointAt(s) == IF \E k \in 1..Len(s) : s[k] = "." THEN CHOOSE k \in 1..Len(s) : s[k] = "." ELSE 0

RECURSIVE Pow10(_)
Pow10(n) == IF n = 0 THEN 1 ELSE 10 * Pow10(n - 1)

\* the digits f after the point, counted in units of 10^-places
Fraction(f, places) == NumVal(SubSeq(f \o [k \in 1..places |-> "0"], 1, places))

\* float(s)
ParseFloat(s, places) ==
    LET t == Unsign(Strip(s))
        k == PointAt(t)
        w == IF k = 0 THEN t ELSE SubSeq(t, 1, k - 1)
        f == IF k = 0 THEN <<>> ELSE SubSeq(t, k + 1, Len(t))
        m == Pow10(places) * NumVal(w) + Fraction(f, places)
    IN  IF /\ \A j \in 1..Len(w) : IsDigit(w[j])
           /\ \A j \in 1..Len(f) : IsDigit(f[j])
           /\ Len(w) + Len(f) > 0
        THEN [ok |-> TRUE, value |-> IF IsNegative(Strip(s)) THEN -m ELSE m]
        ELSE ValueError

RECURSIVE RemoveCommas(_)
\* s.replace(',', '')
RemoveCommas(s) ==
    IF s = <<>> THEN <<>>
    ELSE IF Head(s) = "," THEN RemoveCommas(Tail(s))
    ELSE <<Head(s)>> \o RemoveCommas(Tail(s))

(***************************************************************************)
(* process_cashflow: the loop over the rows                                *)
(***************************************************************************)
KeyValuationDate == <<"v", "a", "l", "u", "a", "t", "i", "o", "n", "_", "d", "a", "t", "e">>

KeyDiscountRate == <<"d", "i", "s", "c", "o", "u", "n", "t", "_", "r", "a", "t", "e">>

KeySalaryIncreaseRate == <<"s", "a", "l", "a", "r", "y", "_", "i", "n", "c", "r", "e", "a", "s", "e", "_", "r", "a", "t", "e">>

KeyRetirementAge == <<"r", "e", "t", "i", "r", "e", "m", "e", "n", "t", "_", "a", "g", "e">>

HeaderCells == { <<"e", "m", "p", "_", "i", "d">>, <<"e", "m", "p", "l", "o", "y", "e", "e", "_", "i", "d">>, <<"i", "d">> }

\* the assumptions before any row is read: the discount rate in
\* ten-thousandths, the salary increase rate in thousandths
DefaultAssumptions ==
    [valuation_date       |-> Date(2024, 12, 31),
     discount_rate        |-> 545,
     salary_increase_rate |-> 50,
     retirement_age       |-> 60,
     assumptions_found    |-> FALSE,
     employees            |-> <<>>,
     raised               |-> FALSE]

IsBlankRow(row) == row = <<>> \/ \A k \in 1..Len(row) : Strip(row[k]) = <<>>

\* the try block that reads one employee
ParseEmployee(row) ==
    LET date_birth   == parse_date(row[3])
        date_joining == parse_date(row[4])
        salary       == ParseFloat(RemoveCommas(row[5]), 3)
    IN  IF date_birth.ok /\ date_joining.ok /\ salary.ok
        THEN [ok |-> TRUE,
              value |-> [emp_id |-> Strip(row[1]), emp_name |-> Strip(row[2]),
                         date_birth |-> date_birth.value,
                         date_joining |-> date_joining.value,
                         salary |-> salary.value]]
        ELSE ValueError

\* an assumption row whose failed conversion is caught and the row skipped
AssumptionRowCaught(st, key, cell) ==
    LET d == parse_date(cell)
        f == ParseFloat(cell, 3)
        g == ParseFloat(cell, 4)
        n == ParseInt(cell)
    IN  CASE key = KeyValuationDate ->
               IF d.ok THEN [st EXCEPT !.valuation_date = d.value, !.assumptions_found = TRUE] ELSE st
          [] key = KeyDiscountRate ->
               IF g.ok THEN [st EXCEPT !.discount_rate = g.value, !.assumptions_found = TRUE] ELSE st
          [] key = KeySalaryIncreaseRate ->
               IF f.ok THEN [st EXCEPT !.salary_increase_rate = f.value, !.assumptions_found = TRUE] ELSE st
          [] key = KeyRetirementAge ->
               IF n.ok THEN [st EXCEPT !.retirement_age = n.value, !.assumptions_found = TRUE] ELSE st

\* an assumption row: the value is converted and stored, a conversion that
\* fails is not caught
AssumptionRow(st, key, cell) ==
    LET d == parse_date(cell)
        f == ParseFloat(cell, 3)
        g == ParseFloat(cell, 4)
        n == ParseInt(cell)
    IN  CASE key = KeyValuationDate ->
               IF d.ok THEN [st EXCEPT !.valuation_date = d.value, !.assumptions_found = TRUE]
               ELSE [st EXCEPT !.raised = TRUE]
          [] key = KeyDiscountRate ->
               IF g.ok THEN [st EXCEPT !.discount_rate = g.value, !.assumptions_found = TRUE]
               ELSE [st EXCEPT !.raised = TRUE]
          [] key = KeySalaryIncreaseRate ->
               IF f.ok THEN [st EXCEPT !.salary_increase_rate = f.value, !.assumptions_found = TRUE]
               ELSE [st EXCEPT !.raised = TRUE]
          [] key = KeyRetirementAge ->
               IF n.ok THEN [st EXCEPT !.retirement_age = n.value, !.assumptions_found = TRUE]
               ELSE [st EXCEPT !.raised = TRUE]

AssumptionKeys == {KeyValuationDate, KeyDiscountRate, KeySalaryIncreaseRate, KeyRetirementAge}

\* the iteration without the test of the row's length before the key: the
\* value cell of a one-cell row is an IndexError
RowStepNoLength(st, row) ==
    IF IsBlankRow(row) THEN st
    ELSE IF Lower(Strip(row[1])) \in AssumptionKeys
    THEN (IF Len(row) >= 2 THEN AssumptionRow(st, Lower(Strip(row[1])), row[2])
          ELSE [st EXCEPT !.raised = TRUE])
    ELSE IF Len(row) >= 5
    THEN IF Lower(Strip(row[1])) \in HeaderCells THEN st
         ELSE IF ParseEmployee(row).ok
         THEN [st EXCEPT !.employees = Append(@, ParseEmployee(row).value)]
         ELSE st
    ELSE st

\* one iteration of the loop over the rows
RowStep(st, row) ==
    IF IsBlankRow(row) THEN st
    ELSE IF Len(row) >= 2 /\ Lower(Strip(row[1])) \in AssumptionKeys
    THEN AssumptionRow(st, Lower(Strip(row[1])), row[2])
    ELSE IF Len(row) >= 5
    THEN IF Lower(Strip(row[1])) \in HeaderCells THEN st
         ELSE IF ParseEmployee(row).ok
         THEN [st EXCEPT !.employees = Append(@, ParseEmployee(row).value)]
         ELSE st
    ELSE st

(***************************************************************************)
(* process_cashflow: the projection of one employee                        *)
(***************************************************************************)
ProjectionRow(emp, a, future_salary, p) ==
    [emp_id                 |-> emp.emp_id,
     emp_name               |-> emp.emp_name,
     age                    |-> a,
     future_salary          |-> Round2(future_salary),
     survival_prob          |-> p.px,
     death_prob             |-> p.qx,
     expected_death_outflow |-> Round6Product(future_salary, p.px, p.qx)]

\* range(current_age, retirement_age + 1)
AgeRangeInclusive(first, last) == [k \in 1..(last - first + 1) |-> first + k - 1]

\* range(current_age, retirement_age)
AgeRange(first, last) == [k \in 1..(last - first) |-> first + k - 1]

RECURSIVE ProjectionLoop(_, _, _, _, _)
\* the loop over the ages from position k of the range, with the salary
\* projected for that age
ProjectionLoop(emp, ages, k, future_salary, rate) ==
    IF k > Len(ages) THEN <<>>
    ELSE <<ProjectionRow(emp, ages[k], future_salary,
                         get_probability(ages[k], DEFAULT_PROBABILITY_TABLE))>>
         \o ProjectionLoop(emp, ages, k + 1, TimesOnePlus(future_salary, rate), rate)

\* the salary as a float, from its value in thousandths
SalaryFloat(salary) == [neg |-> salary < 0, mag |-> BigFromNat(Abs(salary)), scale |-> 1]

\* the projection that starts at the salary itself
FirstProjectionRaw(emp, rate) == [SalaryFloat(emp.salary) EXCEPT !.scale = 2, !.mag = BigMulSmall(@, 1000)]

\* emp['salary'] * (1 + salary_increase_rate)
FirstProjection(emp, rate) == TimesOnePlus(SalaryFloat(emp.salary), rate)

\* the body of the loop over the employees
ProjectEmployee(emp, val, rate, retirement) ==
    ProjectionLoop(emp, AgeRange(calculate_age(emp.date_birth, val), retirement), 1,
                   FirstProjection(emp, rate), rate)

RECURSIVE ReadRows(_, _, _)
ReadRows(st, rs, k) ==
    IF st.raised \/ k > Len(rs) THEN st ELSE ReadRows(RowStep(st, rs[k]), rs, k + 1)

RECURSIVE ProjectAll(_, _)
ProjectAll(st, k) ==
    IF k > Len(st.employees) THEN <<>>
    ELSE ProjectEmployee(st.employees[k], st.valuation_date, st.salary_increase_rate,
                         st.retirement_age)
         \o ProjectAll(st, k + 1)

\* the text written at the end: the assumptions and one line per row (the
\* title, the headers and the time of generation are left out)
OutputCsv(val, discount, rate, retirement, out) ==
    [valuation_date |-> [year |-> val.year, month |-> val.month, day |-> val.day],
     discount_rate |-> discount, salary_increase_rate |-> rate,
     retirement_age |-> retirement, lines |-> out]

\* the tuple returned at the end, with the rows of the output bound once as
\* the local variable output_rows is
ReturnedTuple(st) ==
    CHOOSE r \in { [ok |-> TRUE,
                    output_csv |-> OutputCsv(st.valuation_date, st.discount_rate,
                                             st.salary_increase_rate, st.retirement_age,
                                             out),
                    input_row_count |-> Len(st.employees),
                    output_row_count |-> Len(out)] : out \in {ProjectAll(st, 1)} } : TRUE

\* process_cashflow as a whole: the returned tuple, or the ValueError of an
\* assumption row
process_cashflow(rs) ==
    CHOOSE r \in { IF st.raised THEN ValueError ELSE ReturnedTuple(st) :
                     st \in {ReadRows(DefaultAssumptions, rs, 1)} } : TRUE

(***************************************************************************)
(* The three helpers called on their own, on inputs from bounded sets      *)
(***************************************************************************)
CoreIdle ==
    /\ rows = <<>> /\ i = 1
    /\ valuation_date = DefaultAssumptions.valuation_date
    /\ discount_rate = DefaultAssumptions.discount_rate
    /\ salary_increase_rate = DefaultAssumptions.salary_increase_rate
    /\ retirement_age = DefaultAssumptions.retirement_age
    /\ assumptions_found = FALSE
    /\ employees = <<>> /\ input_row_count = 0 /\ emp_i = 1 /\ output_rows = <<>>
    /\ result = ValueError
    /\ pc = "idle"

\* the handlers of process requests that run at the same time
Workers == {"w1", "w2"}

\* a record of the table: output_file is 0 for no file, else the serial
\* number of the request that saved it (each save gets a name of its own);
\* completed_at tells whether the time of completion is set
NoExecution ==
    [id |-> 0, input_file |-> <<>>, output_file |-> 0, status |-> "pending",
     input_rows |-> 0, output_rows |-> 0, error_message |-> "", completed_at |-> FALSE]

NoRequest ==
    [pc |-> "idle", serial |-> 0, execution |-> NoExecution, input_rows |-> 0, output_rows |-> 0]

WebIdle ==
    /\ executions = <<>>
    /\ requests = [w \in Workers |-> NoRequest]
    /\ message = "none"
    /\ started = 0
    /\ runs = <<>>

FnIdle ==
    /\ date_str = <<>> /\ parsed = ValueError
    /\ birth_date = Date(1, 1, 1) /\ valuation = Date(1, 1, 1) /\ current_age = 0
    /\ age = 0 /\ probability = KeyError
    /\ returned = FALSE

\* the numbers a date string is built from
DateParts ==
    { <<"0", "5">>, <<"0", "6">>, <<"1", "3">>, <<"3", "1">>, <<"0", "2">>, <<"5">>,
      <<"2", "0", "2", "4">>, <<"0", "0", "0", "0">> }

DateSeparators == { <<"/">>, <<"-">> }

TimeSuffixes ==
    { <<>>, <<" ">>, <<" ", "1", "0", ":", "0", "0", ":", "0", "0">>,
      <<" ", " ", "7", ":", "5", ":", "9">>, <<" ", "2", "4", ":", "0", "0", ":", "0", "0">>,
      <<"x">> }

DateStrings ==
    { a \o s1 \o b \o s1 \o c \o t :
        a \in DateParts, b \in DateParts, c \in DateParts, s1 \in DateSeparators, t \in TimeSuffixes }
    \cup { <<>>, <<" ">>, <<"b", "a", "d">>, <<" ", "0", "5", "/", "0", "6", "/", "2", "0", "2", "4">>,
           <<"0", "5", "/", "0", "6", "-", "2", "0", "2", "4">>,
           <<"2", "0", "2", "4", "-", "1", "2", "-", " ", "5">> }

DateInit ==
    /\ date_str \in DateStrings /\ parsed = ValueError
    /\ birth_date = Date(1, 1, 1) /\ valuation = Date(1, 1, 1) /\ current_age = 0
    /\ age = 0 /\ probability = KeyError
    /\ returned = FALSE
    /\ CoreIdle /\ WebIdle

CallParseDate ==
    /\ ~returned
    /\ parsed' = parse_date(date_str)
    /\ returned' = TRUE
    /\ UNCHANGED <<date_str, birth_date, valuation, current_age, age, probability, coreVars, webVars>>

DateNext == CallParseDate

DateSpec == DateInit /\ [][DateNext]_vars

\* the number of years on each side of the valuation year that birth dates span
BirthYearSpan == 3

BirthDates ==
    { DateTime(y, md[1], md[2], hh, 0, 0) :
        y \in ({1964, 1970} \cup ((2024 - BirthYearSpan)..(2024 + BirthYearSpan))),
        md \in { <<1, 1>>, <<6, 15>>, <<12, 31>> },
        hh \in {0, 12} }

ValuationDates == { Date(2024, 12, 31), DateTime(2024, 12, 31, 6, 0, 0), Date(2025, 6, 15) }

AgeInit ==
    /\ birth_date \in BirthDates /\ valuation \in ValuationDates /\ current_age = 0
    /\ date_str = <<>> /\ parsed = ValueError
    /\ age = 0 /\ probability = KeyError
    /\ returned = FALSE
    /\ CoreIdle /\ WebIdle

CallCalculateAge ==
    /\ ~returned
    /\ current_age' = calculate_age(birth_date, valuation)
    /\ returned' = TRUE
    /\ UNCHANGED <<date_str, parsed, birth_date, valuation, age, probability, coreVars, webVars>>

AgeNext == CallCalculateAge

AgeSpec == AgeInit /\ [][AgeNext]_vars

\* how far below the least key and above the greatest key the ages range
AgeProbe == 40

ProbInit ==
    /\ age \in (20 - AgeProbe)..(73 + AgeProbe) /\ probability = KeyError
    /\ date_str = <<>> /\ parsed = ValueError
    /\ birth_date = Date(1, 1, 1) /\ valuation = Date(1, 1, 1) /\ current_age = 0
    /\ returned = FALSE
    /\ CoreIdle /\ WebIdle

CallGetProbability ==
    /\ ~returned
    /\ probability' = get_probability(age, DEFAULT_PROBABILITY_TABLE)
    /\ returned' = TRUE
    /\ UNCHANGED <<date_str, parsed, birth_date, valuation, current_age, age, coreVars, webVars>>

ProbNext == CallGetProbability

ProbSpec == ProbInit /\ [][ProbNext]_vars

(***************************************************************************)
(* process_cashflow run on files of at most MaxRows rows                   *)
(***************************************************************************)
\* 
RowEmpty ==
    <<>>

\* , 
RowBlank ==
    <<<<>>, <<" ">>>>

\* valuation_date,2024-12-31
RowValuation ==
    <<<<"v", "a", "l", "u", "a", "t", "i", "o", "n", "_", "d", "a", "t", "e">>, <<"2", "0", "2", "4", "-", "1", "2", "-", "3", "1">>>>

\*  Valuation_Date,15/06/2025
RowValuationLater ==
    <<<<" ", "V", "a", "l", "u", "a", "t", "i", "o", "n", "_", "D", "a", "t", "e">>, <<"1", "5", "/", "0", "6", "/", "2", "0", "2", "5">>>>

\* valuation_date,bad
RowValuationBad ==
    <<<<"v", "a", "l", "u", "a", "t", "i", "o", "n", "_", "d", "a", "t", "e">>, <<"b", "a", "d">>>>

\* retirement_age, 57
RowRetirement ==
    <<<<"r", "e", "t", "i", "r", "e", "m", "e", "n", "t", "_", "a", "g", "e">>, <<" ", "5", "7">>>>

\* retirement_age,
RowRetirementBlank ==
    <<<<"r", "e", "t", "i", "r", "e", "m", "e", "n", "t", "_", "a", "g", "e">>, <<>>>>

\* retirement_age,57.5
RowRetirementBad ==
    <<<<"r", "e", "t", "i", "r", "e", "m", "e", "n", "t", "_", "a", "g", "e">>, <<"5", "7", ".", "5">>>>

\* salary_increase_rate,0.001
RowRate ==
    <<<<"s", "a", "l", "a", "r", "y", "_", "i", "n", "c", "r", "e", "a", "s", "e", "_", "r", "a", "t", "e">>, <<"0", ".", "0", "0", "1">>>>

\* salary_increase_rate,0
RowRateZero ==
    <<<<"s", "a", "l", "a", "r", "y", "_", "i", "n", "c", "r", "e", "a", "s", "e", "_", "r", "a", "t", "e">>, <<"0">>>>

\* salary_increase_rate,5%
RowRateBad ==
    <<<<"s", "a", "l", "a", "r", "y", "_", "i", "n", "c", "r", "e", "a", "s", "e", "_", "r", "a", "t", "e">>, <<"5", "%">>>>

\* DISCOUNT_RATE,0.06
RowDiscount ==
    <<<<"D", "I", "S", "C", "O", "U", "N", "T", "_", "R", "A", "T", "E">>, <<"0", ".", "0", "6">>>>

\* discount_rate,x
RowDiscountBad ==
    <<<<"d", "i", "s", "c", "o", "u", "n", "t", "_", "r", "a", "t", "e">>, <<"x">>>>

\* valuation_date
RowKeyOnly ==
    <<<<"v", "a", "l", "u", "a", "t", "i", "o", "n", "_", "d", "a", "t", "e">>>>

\* emp_id,emp_name,date_birth,date_joining,salary
RowHeader ==
    <<<<"e", "m", "p", "_", "i", "d">>, <<"e", "m", "p", "_", "n", "a", "m", "e">>, <<"d", "a", "t", "e", "_", "b", "i", "r", "t", "h">>, <<"d", "a", "t", "e", "_", "j", "o", "i", "n", "i", "n", "g">>, <<"s", "a", "l", "a", "r", "y">>>>

\* E1,Alice,1970-01-01,2000-01-01,50000
RowAlice ==
    <<<<"E", "1">>, <<"A", "l", "i", "c", "e">>, <<"1", "9", "7", "0", "-", "0", "1", "-", "0", "1">>, <<"2", "0", "0", "0", "-", "0", "1", "-", "0", "1">>, <<"5", "0", "0", "0", "0">>>>

\* E2,Bob,01/02/1968,2000-01-01,0
RowBob ==
    <<<<"E", "2">>, <<"B", "o", "b">>, <<"0", "1", "/", "0", "2", "/", "1", "9", "6", "8">>, <<"2", "0", "0", "0", "-", "0", "1", "-", "0", "1">>, <<"0">>>>

\* E3,Carol,1960-01-01,1990-01-01,1,000.50
RowCarol ==
    <<<<"E", "3">>, <<"C", "a", "r", "o", "l">>, <<"1", "9", "6", "0", "-", "0", "1", "-", "0", "1">>, <<"1", "9", "9", "0", "-", "0", "1", "-", "0", "1">>, <<"1", ",", "0", "0", "0", ".", "5", "0">>>>

\* E4,Dan,1969-06-15,2000-01-01,1
RowDan ==
    <<<<"E", "4">>, <<"D", "a", "n">>, <<"1", "9", "6", "9", "-", "0", "6", "-", "1", "5">>, <<"2", "0", "0", "0", "-", "0", "1", "-", "0", "1">>, <<"1">>>>

\* E5,Eve,31-12-2010,2024-01-01,-5
RowEve ==
    <<<<"E", "5">>, <<"E", "v", "e">>, <<"3", "1", "-", "1", "2", "-", "2", "0", "1", "0">>, <<"2", "0", "2", "4", "-", "0", "1", "-", "0", "1">>, <<"-", "5">>>>

\* E6,Fay,bad,2000-01-01,100
RowBadBirth ==
    <<<<"E", "6">>, <<"F", "a", "y">>, <<"b", "a", "d">>, <<"2", "0", "0", "0", "-", "0", "1", "-", "0", "1">>, <<"1", "0", "0">>>>

\* E7,Gus,1970-01-01,,100
RowBadJoining ==
    <<<<"E", "7">>, <<"G", "u", "s">>, <<"1", "9", "7", "0", "-", "0", "1", "-", "0", "1">>, <<>>, <<"1", "0", "0">>>>

\* E8,Hal,1970-01-01,2000-01-01,abc
RowBadSalary ==
    <<<<"E", "8">>, <<"H", "a", "l">>, <<"1", "9", "7", "0", "-", "0", "1", "-", "0", "1">>, <<"2", "0", "0", "0", "-", "0", "1", "-", "0", "1">>, <<"a", "b", "c">>>>

\* E9,,,,
RowOneCellOfFive ==
    <<<<"E", "9">>, <<>>, <<>>, <<>>, <<>>>>

\* E1,Alice,1970-01-01
RowThreeCells ==
    <<<<"E", "1">>, <<"A", "l", "i", "c", "e">>, <<"1", "9", "7", "0", "-", "0", "1", "-", "0", "1">>>>

RowPool ==
    { RowEmpty, RowBlank, RowValuation, RowValuationLater, RowValuationBad,
      RowRetirement, RowRetirementBlank, RowRetirementBad, RowRate, RowRateZero,
      RowRateBad, RowDiscount, RowDiscountBad, RowKeyOnly, RowHeader,
      RowAlice, RowBob, RowCarol, RowDan, RowEve,
      RowBadBirth, RowBadJoining, RowBadSalary, RowOneCellOfFive, RowThreeCells }

\* the file of the scenario: valuation_date,2024-12-31 and
\* E1,Alice,1970-01-01,2000-01-01,50000
ScenarioFile == <<RowValuation, RowAlice>>

\* the greatest number of rows of a file
MaxRows == 2

RECURSIVE Files(_)
Files(n) == IF n = 0 THEN { <<>> } ELSE Files(n - 1) \cup { Append(f, r) : f \in Files(n - 1), r \in RowPool }

\* lines 93-110: the rows are read and the assumptions take their defaults
CoreInit ==
    /\ rows \in Files(MaxRows) /\ i = 1
    /\ valuation_date = DefaultAssumptions.valuation_date
    /\ discount_rate = DefaultAssumptions.discount_rate
    /\ salary_increase_rate = DefaultAssumptions.salary_increase_rate
    /\ retirement_age = DefaultAssumptions.retirement_age
    /\ assumptions_found = FALSE
    /\ employees = <<>> /\ input_row_count = 0 /\ emp_i = 1 /\ output_rows = <<>>
    /\ result = ValueError
    /\ pc = "rows"
    /\ FnIdle /\ WebIdle

\* the assumptions and the employees as RowStep takes them
ParseState ==
    [valuation_date       |-> valuation_date,
     discount_rate        |-> discount_rate,
     salary_increase_rate |-> salary_increase_rate,
     retirement_age       |-> retirement_age,
     assumptions_found    |-> assumptions_found,
     employees            |-> employees,
     raised               |-> FALSE]

\* lines 112-158: one row is read; a ValueError of an assumption row leaves
\* the function
ReadRow ==
    /\ pc = "rows" /\ i <= Len(rows)
    /\ LET st == RowStep(ParseState, rows[i])
       IN  /\ valuation_date' = st.valuation_date
           /\ discount_rate' = st.discount_rate
           /\ salary_increase_rate' = st.salary_increase_rate
           /\ retirement_age' = st.retirement_age
           /\ assumptions_found' = st.assumptions_found
           /\ employees' = st.employees
           /\ pc' = IF st.raised THEN "raised" ELSE "rows"
    /\ i' = i + 1
    /\ UNCHANGED <<rows, input_row_count, emp_i, output_rows, result, fnVars, webVars>>

\* lines 160-163: the loop over the rows is over
CountEmployees ==
    /\ pc = "rows" /\ i > Len(rows)
    /\ input_row_count' = Len(employees)
    /\ output_rows' = <<>>
    /\ pc' = "employees"
    /\ UNCHANGED <<rows, i, valuation_date, discount_rate, salary_increase_rate, retirement_age,
                   assumptions_found, employees, emp_i, result, fnVars, webVars>>

\* lines 165-187: the rows of one employee are appended
Project ==
    /\ pc = "employees" /\ emp_i <= Len(employees)
    /\ output_rows' = output_rows \o ProjectEmployee(employees[emp_i], valuation_date,
                                                     salary_increase_rate, retirement_age)
    /\ emp_i' = emp_i + 1
    /\ UNCHANGED <<rows, i, valuation_date, discount_rate, salary_increase_rate, retirement_age,
                   assumptions_found, employees, input_row_count, result, pc, fnVars, webVars>>

\* lines 189-223: the output is written and the tuple returned
WriteOutput ==
    /\ pc = "employees" /\ emp_i > Len(employees)
    /\ result' = [ok |-> TRUE,
                  output_csv |-> OutputCsv(valuation_date, discount_rate, salary_increase_rate,
                                           retirement_age, output_rows),
                  input_row_count |-> input_row_count,
                  output_row_count |-> Len(output_rows)]
    /\ pc' = "returned"
    /\ UNCHANGED <<rows, i, valuation_date, discount_rate, salary_increase_rate, retirement_age,
                   assumptions_found, employees, input_row_count, emp_i, output_rows, fnVars, webVars>>

CoreNext == ReadRow \/ CountEmployees \/ Project \/ WriteOutput

CoreSpec == CoreInit /\ [][CoreNext]_vars

(***************************************************************************)
(* The upload and process request handlers and the Execution table.  An    *)
(* execution's id is its index in the table.  A handler's steps are the    *)
(* places where it reads or writes the table; save() writes every field of *)
(* the handler's own copy of the record.                                   *)
(***************************************************************************)
\* the greatest number of executions created
MaxExecutions == 2

\* the greatest number of process requests that get past the status test
MaxRequests == 3

\* the files uploaded: one that process_cashflow accepts, one that it
\* rejects
UploadedFiles == { ScenarioFile, <<RowValuationBad>> }

WebInit ==
    /\ executions = <<>>
    /\ requests = [w \in Workers |-> NoRequest]
    /\ message = "none"
    /\ started = 0
    /\ runs = <<>>
    /\ FnIdle /\ CoreIdle

\* Execution.objects.create(input_file=..., status='pending'), the other
\* fields at the defaults of the model
NewExecution(id, file) ==
    [id |-> id, input_file |-> file, output_file |-> 0, status |-> "pending",
     input_rows |-> 0, output_rows |-> 0, error_message |-> "", completed_at |-> FALSE]

\* upload: a request that is not a POST, has no file or has a file whose
\* name does not end in .csv creates nothing
upload ==
    /\ Len(executions) < MaxExecutions
    /\ \E method \in {"GET", "POST"}, has_file \in BOOLEAN, is_csv \in BOOLEAN,
          input_file \in UploadedFiles :
          IF method # "POST" THEN UNCHANGED <<executions, message, runs>>
          ELSE IF ~has_file
          THEN message' = "no_file" /\ UNCHANGED <<executions, runs>>
          ELSE IF ~is_csv
          THEN message' = "invalid_type" /\ UNCHANGED <<executions, runs>>
          ELSE /\ executions' = Append(executions, NewExecution(Len(executions) + 1, input_file))
               /\ runs' = Append(runs, 0)
               /\ message' = "uploaded"
    /\ UNCHANGED <<requests, started, fnVars, coreVars>>

\* the status test that lets a request process any execution that is not
\* being processed
ProcessableUnlessProcessing(status) == status # "processing"

\* execution.status in ('pending', 'failed')
Processable(status) == status \in {"pending", "failed"}

\* process, lines 51-55: the record is read and its status tested; an
\* unknown id is answered with 404
ProcessGet(w, execution_id) ==
    /\ requests[w].pc = "idle"
    /\ started < MaxRequests
    /\ IF execution_id \notin 1..Len(executions)
       THEN UNCHANGED <<requests, message, started>>
       ELSE IF ~Processable(executions[execution_id].status)
       THEN message' = "already_processed" /\ UNCHANGED <<requests, started>>
       ELSE /\ requests' = [requests EXCEPT ![w] =
                               [NoRequest EXCEPT !.pc = "get", !.serial = started + 1,
                                                 !.execution = executions[execution_id]]]
            /\ started' = started + 1
            /\ UNCHANGED message
    /\ UNCHANGED <<executions, runs, fnVars, coreVars>>

\* execution.save()
Save(execution) == [executions EXCEPT ![execution.id] = execution]

\* process, lines 57-58
ProcessMark(w) ==
    /\ requests[w].pc = "get"
    /\ LET execution == [requests[w].execution EXCEPT !.status = "processing"]
       IN  /\ executions' = Save(execution)
           /\ requests' = [requests EXCEPT ![w].pc = "processing", ![w].execution = execution]
    /\ UNCHANGED <<message, started, runs, fnVars, coreVars>>

\* process, lines 60-67: process_cashflow returns and the output file is
\* saved under a new name, which saves the record too
ProcessRun(w) ==
    /\ requests[w].pc = "processing"
    /\ \E r \in {process_cashflow(requests[w].execution.input_file)} :
          \E execution \in {[requests[w].execution EXCEPT !.output_file = requests[w].serial]} :
             /\ r.ok
             /\ executions' = Save(execution)
             /\ requests' = [requests EXCEPT ![w] =
                                [pc |-> "ran", serial |-> requests[w].serial,
                                 execution |-> execution,
                                 input_rows |-> r.input_row_count,
                                 output_rows |-> r.output_row_count]]
    /\ runs' = [runs EXCEPT ![requests[w].execution.id] = @ + 1]
    /\ UNCHANGED <<message, started, fnVars, coreVars>>

\* process, lines 69-76
ProcessComplete(w) ==
    /\ requests[w].pc = "ran"
    /\ executions' = Save([requests[w].execution EXCEPT
                              !.status = "completed",
                              !.input_rows = requests[w].input_rows,
                              !.output_rows = requests[w].output_rows,
                              !.completed_at = TRUE])
    /\ requests' = [requests EXCEPT ![w] = NoRequest]
    /\ message' = "complete"
    /\ UNCHANGED <<started, runs, fnVars, coreVars>>

\* process, lines 60-67 and 78-82: an exception is caught: the input file
\* cannot be opened, process_cashflow raises, or the output file cannot be
\* written
ProcessFail(w) ==
    /\ requests[w].pc = "processing"
    /\ \E r \in {process_cashflow(requests[w].execution.input_file)} :
          \E cause \in {"open", IF r.ok THEN "write" ELSE "process_cashflow"} :
             /\ executions' = Save([requests[w].execution EXCEPT
                                       !.status = "failed", !.error_message = cause])
             /\ runs' = [runs EXCEPT ![requests[w].execution.id] =
                            IF cause = "open" THEN @ ELSE @ + 1]
    /\ requests' = [requests EXCEPT ![w] = NoRequest]
    /\ message' = "failed"
    /\ UNCHANGED <<started, fnVars, coreVars>>

Next ==
    \/ upload
    \/ \E w \in Workers, execution_id \in 1..MaxExecutions : ProcessGet(w, execution_id)
    \/ \E w \in Workers : ProcessMark(w)
    \/ \E w \in Workers : ProcessRun(w)
    \/ \E w \in Workers : ProcessComplete(w)
    \/ \E w \in Workers : ProcessFail(w)

Init == WebInit

\* requests handled at the same time, their steps interleaved
Spec == Init /\ [][Next]_vars

NoneInProgress == \A w \in Workers : requests[w].pc = "idle"

SeqNext ==
    \/ upload
    \/ \E w \in Workers, execution_id \in 1..MaxExecutions :
          NoneInProgress /\ ProcessGet(w, execution_id)
    \/ \E w \in Workers : ProcessMark(w)
    \/ \E w \in Workers : ProcessRun(w)
    \/ \E w \in Workers : ProcessComplete(w)
    \/ \E w \in Workers : ProcessFail(w)

\* requests handled one at a time: a process request starts when no other
\* is in progress
SeqSpec == Init /\ [][SeqNext]_vars

(***************************************************************************)
(* Properties of the helpers                                               *)
(***************************************************************************)
\* C3: calculate_age returns floor((days between valuation_date and
\* birth_date + 1) / 365.25) for every pair of dates, a birth date later
\* than the valuation date included.
C3_AgeIsFloor ==
    returned => current_age = (4 * (TimedeltaDays(valuation, birth_date) + 1)) \div 1461

\* C5: for every integer age the lookup in the default table (keys 20..73)
\* does not fail; it returns the stored pair of the age when the age is a
\* key, the pair of key 20 below the table and the pair of key 73 above it.
C5_LookupClamps ==
    returned =>
        /\ DOMAIN DEFAULT_PROBABILITY_TABLE = 20..73
        /\ probability # KeyError
        /\ age \in 20..73 => probability = DEFAULT_PROBABILITY_TABLE[age]
        /\ age < 20 => probability = DEFAULT_PROBABILITY_TABLE[20]
        /\ age > 73 => probability = DEFAULT_PROBABILITY_TABLE[73]

C5_Witness ==
    returned /\ age < 0 /\ probability = [qx |-> 1152, px |-> 998848]

\* the formats in the order the claim gives
ClaimedFormatOrder ==
    <<FmtIsoDate, FmtIsoDateTime, FmtDayMonthYear, FmtMonthDayYear, FmtDayMonthYearDash>>

Matching(s) == { k \in 1..5 : strptime(Strip(s), ClaimedFormatOrder[k]).ok }

Least(S) == CHOOSE k \in S : \A j \in S : k <= j

\* C9: parse_date returns the reading of the first format, in the order ISO
\* date, ISO date+time, day/month/year, month/day/year, day-month-year, that
\* matches: a string valid as day/month/year and as month/day/year is read
\* as day/month/year, month/day/year is used only when day/month/year does
\* not match, and a string that matches no format is an error.
C9_FirstFormatWins ==
    returned =>
        /\ Matching(date_str) = {} => parsed = ValueError
        /\ Matching(date_str) # {} =>
               parsed = strptime(Strip(date_str), ClaimedFormatOrder[Least(Matching(date_str))])
        /\ {3, 4} \subseteq Matching(date_str) =>
               parsed = strptime(Strip(date_str), FmtDayMonthYear)
        /\ (parsed.ok /\ parsed = strptime(Strip(date_str), FmtMonthDayYear)
              /\ 3 \in Matching(date_str))
             => parsed = strptime(Strip(date_str), FmtDayMonthYear)
        /\ date_str = <<"0", "5", "/", "0", "6", "/", "2", "0", "2", "4">>
             => parsed = [ok |-> TRUE, value |-> Date(2024, 6, 5)]

C9_Witness ==
    /\ returned
    /\ {3, 4} \subseteq Matching(date_str)
    /\ strptime(Strip(date_str), FmtDayMonthYear) # strptime(Strip(date_str), FmtMonthDayYear)
    /\ parsed.value.day = 5 /\ parsed.value.month = 6

(***************************************************************************)
(* Properties of process_cashflow                                          *)
(***************************************************************************)
\* the step that reads row i
ReadsRow == pc = "rows" /\ i <= Len(rows) /\ i' = i + 1

\* the step that projects employee emp_i
ProjectsEmployee == pc = "employees" /\ emp_i <= Len(employees) /\ emp_i' = emp_i + 1

\* the rows the step appends
NewRows == SubSeq(output_rows', Len(output_rows) + 1, Len(output_rows'))

AssumptionsUnchanged ==
    UNCHANGED <<valuation_date, discount_rate, salary_increase_rate, retirement_age,
                assumptions_found>>

\* C1: the rows emitted for an employee have exactly the ages current_age ..
\* retirement_age - 1, one row per age; an employee with current_age >=
\* retirement_age adds no row and the run still returns its result.
C1_RowsCoverAgeRange ==
    [][ /\ ProjectsEmployee =>
            LET ca == calculate_age(employees[emp_i].date_birth, valuation_date)
            IN  /\ SubSeq(output_rows', 1, Len(output_rows)) = output_rows
                /\ \A k \in 1..Len(NewRows) : NewRows[k].age \in ca..(retirement_age - 1)
                /\ \A a \in ca..(retirement_age - 1) :
                       Cardinality({k \in 1..Len(NewRows) : NewRows[k].age = a}) = 1
                /\ ca >= retirement_age => NewRows = <<>>
                /\ pc' = "employees"
        /\ (pc = "employees" /\ pc' # "employees") =>
               (pc' = "returned" /\ result'.ok /\ result'.output_row_count = Len(output_rows))
      ]_vars

C1_Witness ==
    /\ pc = "returned" /\ result.ok
    /\ Len(employees) = 2
    /\ calculate_age(employees[1].date_birth, valuation_date) >= retirement_age
    /\ calculate_age(employees[2].date_birth, valuation_date) < retirement_age
    /\ Len(output_rows) = retirement_age - calculate_age(employees[2].date_birth, valuation_date)

\* a row that is read as an employee whose dates or salary do not convert
MalformedEmployeeRow(row) ==
    /\ ~IsBlankRow(row) /\ Len(row) >= 5
    /\ Lower(Strip(row[1])) \notin AssumptionKeys \cup HeaderCells
    /\ \/ ~parse_date(row[3]).ok
       \/ ~parse_date(row[4]).ok
       \/ ~ParseFloat(RemoveCommas(row[5]), 3).ok

\* a row with an assumption key whose value cell does not convert
MalformedAssumptionRow(row) ==
    /\ ~IsBlankRow(row) /\ Len(row) >= 2
    /\ \/ Lower(Strip(row[1])) = KeyValuationDate /\ ~parse_date(row[2]).ok
       \/ Lower(Strip(row[1])) = KeyDiscountRate /\ ~ParseFloat(row[2], 4).ok
       \/ Lower(Strip(row[1])) = KeySalaryIncreaseRate /\ ~ParseFloat(row[2], 3).ok
       \/ Lower(Strip(row[1])) = KeyRetirementAge /\ ~ParseInt(row[2]).ok

\* C2: a malformed employee row is dropped and the run goes on to the next
\* row; a malformed assumption row ends the run with an error, and a run
\* ended by an error has no result.
C2_DropEmployeeAbortAssumption ==
    [][ /\ (ReadsRow /\ MalformedEmployeeRow(rows[i])) =>
               (employees' = employees /\ AssumptionsUnchanged /\ pc' = "rows")
        /\ (ReadsRow /\ MalformedAssumptionRow(rows[i])) =>
               (pc' = "raised" /\ result' = ValueError)
        /\ pc = "raised" => (pc' = "raised" /\ result' = ValueError)
      ]_vars

C2_Witness ==
    /\ pc = "raised" /\ i = 3 /\ result = ValueError
    /\ MalformedEmployeeRow(rows[1])
    /\ MalformedAssumptionRow(rows[2])

Ages(out) == [k \in 1..Len(out) |-> out[k].age]

\* m / 10^6 rounded to 6 places, for a product m of three factors counted in
\* units, millionths and millionths
Millionths(units, px, qx) ==
    Signed(FALSE, RoundShift(BigMulSmall(BigMulSmall(BigFromNat(units), px), qx), 2))

\* C4 as stated: the scenario gives current age 52 and 8 rows, for the ages
\* 52..59, the first with future_salary 52500.00 and expected_death_outflow
\* 52500 x 0.992941 x 0.007059 rounded to 6 places.
C4_ScenarioAge52 ==
    (rows = ScenarioFile /\ pc = "returned") =>
        /\ calculate_age(employees[1].date_birth, valuation_date) = 52
        /\ Len(output_rows) = 8
        /\ Ages(output_rows) = <<52, 53, 54, 55, 56, 57, 58, 59>>
        /\ output_rows[1].future_salary = Signed(FALSE, BigFromNat(5250000))
        /\ output_rows[1].expected_death_outflow = Millionths(52500, 992941, 7059)

\* C4 amended: the scenario gives current age 55 (20088 days lie between the
\* two dates) and 5 rows, for the ages 55..59, the first with future_salary
\* 52500.00 and expected_death_outflow 52500 x 0.989714 x 0.010286 rounded
\* to 6 places (534.460406).
C4_ScenarioAge55 ==
    (rows = ScenarioFile /\ pc = "returned") =>
        /\ TimedeltaDays(valuation_date, employees[1].date_birth) = 20088
        /\ calculate_age(employees[1].date_birth, valuation_date) = 55
        /\ result.ok /\ result.input_row_count = 1 /\ result.output_row_count = 5
        /\ Len(output_rows) = 5
        /\ Ages(output_rows) = <<55, 56, 57, 58, 59>>
        /\ output_rows[1].future_salary = Signed(FALSE, BigFromNat(5250000))
        /\ output_rows[1].expected_death_outflow = Millionths(52500, 989714, 10286)
        /\ output_rows[1].expected_death_outflow = Signed(FALSE, BigFromNat(534460406))

C4_Witness ==
    rows = ScenarioFile /\ pc = "returned" /\ Len(output_rows) = 5 /\ output_rows[1].age = 55

NonBlankCells(row) == Cardinality({k \in 1..Len(row) : Strip(row[k]) # <<>>})

\* C6 as stated: a row with fewer than 2 non-blank cells changes neither the
\* assumptions nor the employees and does not end the run.
C6_FewCellsSkipped ==
    [][ (ReadsRow /\ NonBlankCells(rows[i]) < 2) =>
            (AssumptionsUnchanged /\ employees' = employees /\ pc' = "rows")
      ]_vars

\* C6 amended: a row with fewer than 2 non-blank cells changes neither the
\* assumptions nor the employees; it is skipped, except that a row of at
\* least 2 cells whose first cell is an assumption key (its value cell is
\* then blank) ends the run with an error.
C6_FewCellsSkippedOrAbort ==
    [][ (ReadsRow /\ NonBlankCells(rows[i]) < 2) =>
            /\ AssumptionsUnchanged /\ employees' = employees
            /\ pc' \in {"rows", "raised"}
            /\ pc' = "raised" <=>
                   (Len(rows[i]) >= 2 /\ Lower(Strip(rows[i][1])) \in AssumptionKeys)
      ]_vars

C6_Witness ==
    /\ pc = "raised" /\ i = 3
    /\ Len(rows[1]) = 1 /\ NonBlankCells(rows[1]) = 1
    /\ Len(rows[2]) = 2 /\ NonBlankCells(rows[2]) = 1
    /\ employees = <<>> /\ ~assumptions_found

RECURSIVE Compound(_, _, _)
\* salary * (1 + rate)^k as an exact decimal
Compound(salary, rate, k) ==
    IF k = 0 THEN SalaryFloat(salary) ELSE TimesOnePlus(Compound(salary, rate, k - 1), rate)

\* the amount in hundredths is exactly the decimal x
ExactHundredths(amount, x) ==
    /\ amount.neg = (x.neg /\ x.mag # <<>>)
    /\ BigNorm([k \in 1..(x.scale - 1) |-> 0] \o BigMulSmall(amount.mag, 10)) = x.mag

\* C7 as stated: for a positive salary_increase_rate the first row of an
\* employee has future salary salary x (1 + rate), and the future salary of
\* each following row is strictly greater than that of the row before.
C7_StrictlyIncreasing ==
    [][ (ProjectsEmployee /\ salary_increase_rate > 0) =>
            /\ NewRows # <<>> =>
                   ExactHundredths(NewRows[1].future_salary,
                                   Compound(employees[emp_i].salary, salary_increase_rate, 1))
            /\ \A k \in 2..Len(NewRows) :
                   SignedLess(NewRows[k - 1].future_salary, NewRows[k].future_salary)
      ]_vars

\* C7 amended: for a positive salary_increase_rate and an employee with a
\* non-negative salary, row k of the employee has future salary
\* salary x (1 + rate)^k rounded to 2 places (the first row salary x (1 +
\* rate) rounded), and the future salary of each following row is not less
\* than that of the row before.
C7_NonDecreasing ==
    [][ (ProjectsEmployee /\ salary_increase_rate > 0 /\ employees[emp_i].salary >= 0) =>
            /\ \A k \in 1..Len(NewRows) :
                   NewRows[k].future_salary =
                       Round2(Compound(employees[emp_i].salary, salary_increase_rate, k))
            /\ \A k \in 2..Len(NewRows) :
                   ~SignedLess(NewRows[k].future_salary, NewRows[k - 1].future_salary)
      ]_vars

C7_Witness ==
    /\ pc = "returned" /\ salary_increase_rate > 0
    /\ Len(employees) = 1 /\ employees[1].salary = 0
    /\ Len(output_rows) >= 2
    /\ output_rows[1].future_salary = output_rows[2].future_salary

(***************************************************************************)
(* Properties of the request handlers                                      *)
(***************************************************************************)
StatusChange(id) == <<executions[id].status, executions'[id].status>>

CountsChange(id) ==
    \/ executions'[id].input_rows # executions[id].input_rows
    \/ executions'[id].output_rows # executions[id].output_rows

CreatedPending ==
    \A id \in 1..Len(executions') :
        id > Len(executions) =>
            /\ executions'[id].status = "pending"
            /\ executions'[id].input_rows = 0 /\ executions'[id].output_rows = 0

CountsOnlyWithCompleted ==
    \A id \in 1..Len(executions) :
        CountsChange(id) =>
            (executions[id].status # "completed" /\ executions'[id].status = "completed")

\* C8 as stated: an execution is created pending and its status changes only
\* from pending to processing and from processing to completed or failed
\* (completed and failed are final); the row counts change only in the step
\* that makes it completed.
C8_CompletedAndFailedFinal ==
    [][ /\ CreatedPending
        /\ \A id \in 1..Len(executions) :
               executions'[id].status # executions[id].status =>
                   StatusChange(id) \in { <<"pending", "processing">>,
                                          <<"processing", "completed">>,
                                          <<"processing", "failed">> }
        /\ CountsOnlyWithCompleted
      ]_vars

\* C8 amended: with the requests handled one at a time, an execution is
\* created pending and its status changes only from pending to processing,
\* from processing to completed or failed, and from failed back to
\* processing when a failed execution is processed again (completed is
\* final, failed is not); the row counts change only in the step that makes
\* it completed.
C8_FailedIsRetried ==
    [][ /\ CreatedPending
        /\ \A id \in 1..Len(executions) :
               executions'[id].status # executions[id].status =>
                   StatusChange(id) \in { <<"pending", "processing">>,
                                          <<"processing", "completed">>,
                                          <<"processing", "failed">>,
                                          <<"failed", "processing">> }
        /\ CountsOnlyWithCompleted
      ]_vars

C8_Witness ==
    \E id \in 1..Len(executions) :
        /\ executions[id].status = "completed"
        /\ executions[id].error_message # ""
        /\ executions[id].input_rows = 1 /\ executions[id].output_rows = 5
        /\ runs[id] >= 1

\* C10: once an execution is completed, whatever requests run at the same
\* time, its status, output file and row counts do not change and
\* process_cashflow is not called for it again.
C10_CompletedNeverReprocessed ==
    [][ \A id \in 1..Len(executions) :
            executions[id].status = "completed" =>
                /\ executions'[id].status = "completed"
                /\ executions'[id].output_file = executions[id].output_file
                /\ ~CountsChange(id)
                /\ runs'[id] = runs[id]
      ]_vars

====
